---- MODULE Spec2Model ----
(***************************************************************************)
(* Model of the O-Lang resolver conformance engine: the validators, the    *)
(* assertion handler registry, runAssertions, the observation harness      *)
(* invokeResolverWithObservation and the suite executor runAllTests.       *)
(***************************************************************************)
EXTENDS Integers, Sequences, FiniteSets, TLC

(***************************************************************************)
(* JavaScript values.  Every value is a record of one shape: t is the      *)
(* kind, s the payload of a string or boolean (and "NaN" for the number    *)
(* NaN), n the payload of a number, kv the own properties in insertion     *)
(* order (the elements, for an array).                                     *)
(***************************************************************************)
Val(t, s, n, kv) == [t |-> t, s |-> s, n |-> n, kv |-> kv]

Prop(k, v) == [key |-> k, val |-> v]

Undefined == Val("undefined", "", 0, <<>>)

Null == Val("null", "", 0, <<>>)

JsTrue == Val("boolean", "true", 0, <<>>)

JsFalse == Val("boolean", "false", 0, <<>>)

JsBool(b) == IF b THEN JsTrue ELSE JsFalse

Num(n) == Val("number", "", n, <<>>)

NaN == Val("number", "NaN", 0, <<>>)

Str(s) == Val("string", s, 0, <<>>)

Obj(kv) == Val("object", "", 0, kv)

Arr(elems) == Val("array", "", 0, [j \in 1..Len(elems) |-> Prop(ToString(j - 1), elems[j])])

Fn(kv) == Val("function", "", 0, kv)

Elems(v) == [j \in 1..Len(v.kv) |-> v.kv[j].val]

\* x === undefined || x === null: a property read on such a value raises TypeError.
IsNullish(v) == v.t \in {"undefined", "null"}

\* typeof v
TypeOf(v) == IF v.t \in {"object", "array", "null"} THEN "object" ELSE v.t

\* Array.isArray(v)
IsArray(v) == v.t = "array"

\* ToBoolean(v), as used by !v, v && ..., v || ..., if (v)
Truthy(v) ==
    CASE v.t \in {"undefined", "null"} -> FALSE
      [] v.t = "boolean" -> v.s = "true"
      [] v.t = "number" -> v.s # "NaN" /\ v.n # 0
      [] v.t = "string" -> v.s # ""
      [] OTHER -> TRUE

\* The strings of the model that match /^[a-zA-Z][a-zA-Z0-9_]*$/ (line 40).
IdentStrings == {"a", "b", "balance", "status", "code", "E1", "E2", "s", "bank_lookup", "true", "false", "undefined", "null", "NaN"}

\* The strings of the model of length 1 (String.prototype.length).
OneCharStrings == {"a", "b", "s"}

HasOwn(v, k) == \E j \in 1..Len(v.kv) : v.kv[j].key = k

\* The properties every object literal inherits from Object.prototype.
InheritedKeys == {"constructor", "toString", "valueOf", "hasOwnProperty", "__proto__"}

\* k in v, for v an object, array or function: own or inherited property
In(k, v) == HasOwn(v, k) \/ k \in InheritedKeys \/ (v.t = "array" /\ k = "length")

\* v[k] for a non-nullish v: the own property, the length of an array or string,
\* undefined otherwise.
Get(v, k) ==
    IF k = "length" /\ v.t = "array" THEN Num(Len(v.kv))
    ELSE IF k = "length" /\ v.t = "string"
         THEN Num(IF v.s = "" THEN 0 ELSE IF v.s \in OneCharStrings THEN 1 ELSE 2)
    ELSE IF HasOwn(v, k)
         THEN v.kv[CHOOSE j \in 1..Len(v.kv) : v.kv[j].key = k].val
    ELSE Undefined

\* ToPropertyKey(v): the key a value names in v in obj
KeyOf(v) ==
    CASE v.t = "string" -> v.s
      [] v.t = "boolean" -> v.s
      [] v.t = "number" -> IF v.s = "NaN" THEN "NaN" ELSE ToString(v.n)
      [] v.t \in {"undefined", "null"} -> v.t
      [] OTHER -> "[object Object]"

\* a === b where the two operands never are the same object (one of them is
\* parsed from a file or built by a different call).
StrictEquals(a, b) ==
    /\ a.t = b.t
    /\ CASE a.t \in {"undefined", "null"} -> TRUE
         [] a.t = "number" -> a.s # "NaN" /\ b.s # "NaN" /\ a.n = b.n
         [] a.t \in {"string", "boolean"} -> a.s = b.s
         [] OTHER -> FALSE

\* SameValueZero, the comparison of Array.prototype.includes
SameValueZero(a, b) == StrictEquals(a, b) \/ (a = NaN /\ b = NaN)

\* ToNumber(v) is NaN
NumberIsNaN(v) ==
    CASE v.t = "number" -> v.s = "NaN"
      [] v.t \in {"null", "boolean"} -> FALSE
      [] v.t = "string" -> v.s # ""
      [] OTHER -> TRUE

\* ToNumber(v) when it is not NaN
NumberOf(v) ==
    CASE v.t = "number" -> v.n
      [] v.t = "boolean" -> IF v.s = "true" THEN 1 ELSE 0
      [] OTHER -> 0

\* a <= b
JsLeq(a, b) ==
    IF a.t = "string" /\ b.t = "string" THEN a.s = b.s
    ELSE ~NumberIsNaN(a) /\ ~NumberIsNaN(b) /\ NumberOf(a) <= NumberOf(b)

\* a < b
JsLt(a, b) == ~NumberIsNaN(a) /\ ~NumberIsNaN(b) /\ NumberOf(a) < NumberOf(b)

(***************************************************************************)
(* JSON.stringify, as a sequence of tokens.  undefined and functions have  *)
(* no serialization at top level (the result is undefined), are omitted    *)
(* from objects and are written null in arrays; NaN is written null.       *)
(***************************************************************************)
RECURSIVE Serialize(_)
RECURSIVE SerializeProps(_, _, _)
SerializeProps(v, j, first) ==
    IF j > Len(v.kv) THEN <<>>
    ELSE LET p == v.kv[j]
             unserializable == p.val.t \in {"undefined", "function"}
             sep == IF first THEN <<>> ELSE <<",">>
             item == IF v.t = "array"
                     THEN (IF unserializable THEN <<"null">> ELSE Serialize(p.val))
                     ELSE <<"'", p.key, "'", ":">> \o Serialize(p.val)
         IN  IF v.t # "array" /\ unserializable
             THEN SerializeProps(v, j + 1, first)
             ELSE sep \o item \o SerializeProps(v, j + 1, FALSE)

Serialize(v) ==
    CASE v.t = "null" -> <<"null">>
      [] v.t = "number" -> IF v.s = "NaN" THEN <<"null">> ELSE <<ToString(v.n)>>
      [] v.t = "string" -> <<"'", v.s, "'">>
      [] v.t = "boolean" -> <<v.s>>
      [] v.t = "array" -> <<"[">> \o SerializeProps(v, 1, TRUE) \o <<"]">>
      [] v.t = "object" -> <<"{">> \o SerializeProps(v, 1, TRUE) \o <<"}">>
      [] OTHER -> <<"undefined">>

JSONstringify(v) == Serialize(v)

(***************************************************************************)
(* The outcome of evaluating an expression: a value, or a raised TypeError *)
(***************************************************************************)
Ret(v) == [ex |-> FALSE, val |-> v]

Throw == [ex |-> TRUE, val |-> Undefined]

\* (x || []) for an array method call: the array the method runs on, or a
\* raised TypeError when x is truthy and has no such method.
OrEmptyArray(x) == IF Truthy(x) THEN x ELSE Arr(<<>>)

(***************************************************************************)
(* Validators of the resolver metadata (R-005).                            *)
(***************************************************************************)
checkResolverHasField(resolverMeta, assertion) ==
    IF IsNullish(resolverMeta) THEN Throw
    ELSE Ret(JsBool(StrictEquals(Get(resolverMeta, assertion.field), assertion.expected)))

checkResolverInputsValid(resolverMeta) ==
    IF IsNullish(resolverMeta) THEN Throw
    ELSE LET inputs == Get(resolverMeta, "inputs")
         IN  Ret(JsBool(/\ IsArray(inputs)
                        /\ \A j \in 1..Len(inputs.kv) :
                              LET i == inputs.kv[j].val
                              IN  /\ Truthy(i)
                                  /\ TypeOf(Get(i, "name")) = "string"
                                  /\ TypeOf(Get(i, "type")) = "string"
                                  /\ TypeOf(Get(i, "required")) = "boolean"))

checkResolverOutputsValid(resolverMeta) ==
    IF IsNullish(resolverMeta) THEN Throw
    ELSE LET outputs == Get(resolverMeta, "outputs")
         IN  Ret(JsBool(/\ IsArray(outputs)
                        /\ \A j \in 1..Len(outputs.kv) :
                              LET o == outputs.kv[j].val
                              IN  /\ Truthy(o)
                                  /\ TypeOf(Get(o, "name")) = "string"
                                  /\ TypeOf(Get(o, "type")) = "string"))

\* pattern.test(x): x is converted to a string first
PatternTest(x) ==
    CASE x.t = "string" -> x.s \in IdentStrings
      [] x.t \in {"undefined", "null", "boolean"} -> TRUE
      [] x.t = "number" -> x.s = "NaN"
      [] OTHER -> FALSE

checkFieldNamesNormalized(resolverMeta, assertion) ==
    IF IsNullish(resolverMeta) THEN Throw
    ELSE LET items == OrEmptyArray(Get(resolverMeta, assertion.field))
             stops == {j \in 1..Len(items.kv) :
                          \/ IsNullish(items.kv[j].val)
                          \/ ~PatternTest(Get(items.kv[j].val, "name"))}
             first == CHOOSE j \in stops : \A k \in stops : j <= k
         IN  IF ~IsArray(items) THEN Ret(JsFalse)
             ELSE IF stops = {} THEN Ret(JsTrue)
             ELSE IF IsNullish(items.kv[first].val) THEN Throw
             ELSE Ret(JsFalse)

checkResolverFailuresValid(resolverMeta) ==
    IF IsNullish(resolverMeta) THEN Throw
    ELSE LET failures == Get(resolverMeta, "failures")
         IN  IF ~Truthy(failures) THEN Ret(JsFalse)
             ELSE Ret(JsBool(/\ IsArray(failures)
                             /\ \A j \in 1..Len(failures.kv) :
                                   LET f == failures.kv[j].val
                                   IN  /\ Truthy(f)
                                       /\ TypeOf(Get(f, "code")) = "string"
                                       /\ TypeOf(Get(f, "retries")) = "number"))

(***************************************************************************)
(* Validators of the resolver runtime (R-006 .. R-012).                    *)
(***************************************************************************)
checkResolverIsCallable(resolver) == Ret(JsBool(TypeOf(resolver) = "function"))

\* (resolverMeta.failures || []) followed by an array method that reads
\* f.code of the elements up to index last: TypeError when resolverMeta is
\* nullish, when failures is truthy and not an array, or on a nullish element.
FailuresReadThrows(resolverMeta, last) ==
    \/ IsNullish(resolverMeta)
    \/ LET list == OrEmptyArray(Get(resolverMeta, "failures"))
       IN  \/ ~IsArray(list)
           \/ \E j \in 1..Len(list.kv) : j <= last /\ IsNullish(list.kv[j].val)

checkFailureCodeDeclared(observedError, resolverMeta) ==
    LET code == IF IsNullish(observedError) THEN Undefined ELSE Get(observedError, "code")
    IN  IF ~Truthy(code) THEN Ret(JsTrue)
        ELSE IF IsNullish(resolverMeta) THEN Throw
        ELSE LET list == OrEmptyArray(Get(resolverMeta, "failures"))
             IN  IF FailuresReadThrows(resolverMeta, Len(list.kv)) THEN Throw
                 ELSE Ret(JsBool(\E j \in 1..Len(list.kv) :
                                     SameValueZero(Get(list.kv[j].val, "code"), code)))

checkRejectsMissingRequiredInput(invocationResult) ==
    IF IsNullish(invocationResult) THEN Throw
    ELSE IF Truthy(Get(invocationResult, "threw")) THEN Ret(JsTrue)
    ELSE LET output == Get(invocationResult, "output")
         IN  Ret(JsBool(/\ ~IsNullish(output)
                        /\ TypeOf(output) = "object"
                        /\ ~IsArray(output)
                        /\ In("error", output)))

\* failures.find(f => f.code === code): the index of the first match, 0 when
\* there is none.
FindFailure(list, code) ==
    LET hits == {j \in 1..Len(list.kv) :
                    /\ ~IsNullish(list.kv[j].val)
                    /\ StrictEquals(Get(list.kv[j].val, "code"), code)}
    IN  IF hits = {} THEN 0 ELSE CHOOSE j \in hits : \A k \in hits : j <= k

\* The comparison with < in the place of <=
checkRetryCountBelowLimit(observedRetries, resolverMeta, errorCode) ==
    IF IsNullish(resolverMeta) THEN Throw
    ELSE LET list == OrEmptyArray(Get(resolverMeta, "failures"))
             at == IF IsArray(list) THEN FindFailure(list, errorCode) ELSE 0
             last == IF at = 0 THEN Len(list.kv) ELSE at
         IN  IF FailuresReadThrows(resolverMeta, last) THEN Throw
             ELSE IF at = 0 \/ ~Truthy(list.kv[at].val) THEN Ret(JsTrue)
             ELSE Ret(JsBool(JsLt(observedRetries, Get(list.kv[at].val, "retries"))))

checkRetryCountWithinLimit(observedRetries, resolverMeta, errorCode) ==
    IF IsNullish(resolverMeta) THEN Throw
    ELSE LET list == OrEmptyArray(Get(resolverMeta, "failures"))
             at == IF IsArray(list) THEN FindFailure(list, errorCode) ELSE 0
             last == IF at = 0 THEN Len(list.kv) ELSE at
         IN  IF FailuresReadThrows(resolverMeta, last) THEN Throw
             ELSE IF at = 0 \/ ~Truthy(list.kv[at].val) THEN Ret(JsTrue)
             ELSE Ret(JsBool(JsLeq(observedRetries, Get(list.kv[at].val, "retries"))))

checkOutputIsObject(output) ==
    IF ~Truthy(output) \/ TypeOf(output) # "object" \/ IsArray(output) THEN Ret(JsFalse)
    ELSE IF In("output", output)
         THEN LET nested == Get(output, "output")
              IN  Ret(JsBool(nested.t # "null" /\ TypeOf(nested) = "object" /\ ~IsArray(nested)))
    ELSE Ret(JsTrue)

\* The rich results of checkOutputFieldsMatchContract
ShapeFailure(reason, output) ==
    Obj(<<Prop("passed", JsFalse),
          Prop("details", Obj(<<Prop("reason", Str(reason)), Prop("actualOutput", output)>>))>>)

MissingFieldsFailure(missingFields, actualOutput, declaredNames) ==
    Obj(<<Prop("passed", JsFalse),
          Prop("details", Obj(<<Prop("reason", Str("missing_fields")),
                                Prop("missingFields", Arr(missingFields)),
                                Prop("actualOutput", actualOutput),
                                Prop("expectedFields", Arr(declaredNames))>>))>>)

checkOutputFieldsMatchContract(output, resolverMeta) ==
    IF ~Truthy(output) \/ TypeOf(output) # "object" THEN Ret(ShapeFailure("no_output", output))
    ELSE LET actualOutput == IF In("output", output) THEN Get(output, "output") ELSE output
         IN  IF ~Truthy(actualOutput) \/ TypeOf(actualOutput) # "object"
             THEN Ret(ShapeFailure("invalid_output_shape", output))
             ELSE IF IsNullish(resolverMeta) THEN Throw
             ELSE LET list == OrEmptyArray(Get(resolverMeta, "outputs"))
                      declaredNames == [j \in 1..Len(list.kv) |-> Get(list.kv[j].val, "name")]
                      missingFields == SelectSeq(declaredNames,
                                                 LAMBDA name : ~In(KeyOf(name), actualOutput))
                  IN  IF \/ ~IsArray(list)
                         \/ \E j \in 1..Len(list.kv) : IsNullish(list.kv[j].val)
                      THEN Throw
                      ELSE IF Len(missingFields) > 0
                           THEN Ret(MissingFieldsFailure(missingFields, actualOutput, declaredNames))
                      ELSE Ret(JsTrue)

\* The comparison that looks at the second output only
checkDeterministicOutputSecondOnly(results) ==
    IF IsNullish(results) THEN Throw
    ELSE IF JsLt(Get(results, "length"), Num(2)) THEN Ret(JsTrue)
    ELSE IF ~IsArray(results) THEN Throw
    ELSE Ret(JsBool(JSONstringify(results.kv[2].val) = JSONstringify(results.kv[1].val)))

checkDeterministicOutput(results) ==
    IF IsNullish(results) THEN Throw
    ELSE IF JsLt(Get(results, "length"), Num(2)) THEN Ret(JsTrue)
    ELSE IF ~IsArray(results) THEN Throw
    ELSE LET first == JSONstringify(results.kv[1].val)
         IN  Ret(JsBool(\A j \in 2..Len(results.kv) :
                            JSONstringify(results.kv[j].val) = first))

checkNoGlobalMutation == Ret(JsTrue)

(***************************************************************************)
(* Guidance registry.  A message is a sequence of text tokens.             *)
(***************************************************************************)
\* The resolver names of the model that contain "bank", and "telegram".
BankNames == {"bank_lookup"}

TelegramNames == {"telegram_send"}

getGuidanceMessage(assertionType, details, resolverMeta) ==
    LET declared == IF IsNullish(resolverMeta) THEN Undefined ELSE Get(resolverMeta, "resolverName")
        resolverName == IF Truthy(declared) THEN declared ELSE Str("unknown")
        generic == <<"Assertion failed. Check your resolver implementation.">>
    IN  CASE assertionType = "output_fields_match_contract" ->
               IF StrictEquals(Get(details, "reason"), Str("missing_fields"))
               THEN IF resolverName.t \notin {"string", "array"} \/ IsNullish(Get(details, "expectedFields"))
                    THEN [ex |-> TRUE, msg |-> <<>>]
                    ELSE [ex |-> FALSE,
                          msg |-> <<"Your resolver returned: ">>
                                  \o JSONstringify(Get(details, "actualOutput"))
                                  \o <<"But your resolver.js declares outputs: ">>
                                  \o [j \in 1..Len(Get(details, "expectedFields").kv) |->
                                         KeyOf(Get(details, "expectedFields").kv[j].val)]
                                  \o (IF resolverName.s \in BankNames THEN <<"Bank resolver tip">>
                                      ELSE IF resolverName.s \in TelegramNames
                                           THEN <<"Telegram resolver tip">>
                                      ELSE <<>>)]
               ELSE [ex |-> FALSE, msg |-> generic]
          [] assertionType = "rejects_missing_required_input" ->
               [ex |-> FALSE, msg |-> <<"Your resolver didn't reject invalid input properly.">>]
          [] assertionType = "output_is_object" ->
               [ex |-> FALSE, msg |-> <<"Your resolver didn't return an object.">>]
          [] OTHER -> [ex |-> FALSE, msg |-> generic]

(***************************************************************************)
(* Assertion handler registry.                                             *)
(***************************************************************************)
\* The own keys of assertionHandlers
assertionHandlers ==
    {"resolver_has_field", "resolver_inputs_valid", "resolver_outputs_valid",
     "field_names_normalized", "resolver_failures_valid", "resolver_is_callable",
     "resolver_failure_declared", "rejects_missing_required_input",
     "retry_count_within_declared_limit", "output_is_object",
     "output_fields_match_contract", "deterministic_output", "no_global_state_mutation"}

\* type in assertionHandlers: the in operator also finds what the object
\* literal inherits from Object.prototype.
TypeInHandlers(type) == type \in assertionHandlers \/ type \in InheritedKeys

\* assertionHandlers[type](target, assertion, status), for a type that passed
\* the in test
CallHandler(type, target, assertion, status) ==
    CASE type = "resolver_has_field" -> checkResolverHasField(target, assertion)
      [] type = "resolver_inputs_valid" -> checkResolverInputsValid(target)
      [] type = "resolver_outputs_valid" -> checkResolverOutputsValid(target)
      [] type = "field_names_normalized" -> checkFieldNamesNormalized(target, assertion)
      [] type = "resolver_failures_valid" -> checkResolverFailuresValid(target)
      [] type = "resolver_is_callable" ->
           IF IsNullish(target) THEN Throw
           ELSE checkResolverIsCallable(Get(target, "resolver"))
      [] type = "resolver_failure_declared" ->
           IF IsNullish(target) THEN Throw
           ELSE checkFailureCodeDeclared(Get(target, "error"), Get(target, "resolverMeta"))
      [] type = "rejects_missing_required_input" -> checkRejectsMissingRequiredInput(target)
      [] type = "retry_count_within_declared_limit" ->
           IF IsNullish(target) THEN Throw
           ELSE checkRetryCountWithinLimit(
                    Get(target, "retryCount"), Get(target, "resolverMeta"),
                    IF IsNullish(Get(target, "error")) THEN Undefined
                    ELSE Get(Get(target, "error"), "code"))
      [] type = "output_is_object" ->
           IF IsNullish(target) THEN Throw ELSE checkOutputIsObject(Get(target, "output"))
      [] type = "output_fields_match_contract" ->
           IF IsNullish(target) THEN Throw
           ELSE checkOutputFieldsMatchContract(Get(target, "output"), Get(target, "resolverMeta"))
      [] type = "deterministic_output" ->
           IF IsNullish(target) THEN Throw ELSE checkDeterministicOutput(Get(target, "outputs"))
      [] type = "no_global_state_mutation" -> checkNoGlobalMutation
      \* inherited from Object.prototype
      [] type = "toString" -> Ret(Str("[object Object]"))
      [] type = "valueOf" -> Ret(Obj(<<>>))
      [] type = "hasOwnProperty" -> Ret(JsBool(KeyOf(target) \in assertionHandlers))
      [] type = "constructor" ->
           Ret(IF target.t \in {"object", "array", "function"} THEN target ELSE Obj(<<>>))
      [] OTHER -> Throw

(***************************************************************************)
(* runAssertions.  An assertion is a record: id, type and field are        *)
(* strings, severity, description and expected are values (Undefined when  *)
(* the test spec leaves them out).                                         *)
(***************************************************************************)
Failure(id, severity, message) == [id |-> id, severity |-> severity, message |-> message]

\* const { id, type, severity = "fatal", description } = assertion
SeverityOf(assertion) ==
    IF assertion.severity = Undefined THEN Str("fatal") ELSE assertion.severity

\* What one iteration of the loop leaves: what it appends to failures,
\* whether it invoked a handler, whether it raised.
Iteration(ex, invoked, push) == [ex |-> ex, invoked |-> invoked, push |-> push]

\* let message = description || `Assertion failed: ${id}`
PlainMessage(assertion) ==
    IF Truthy(assertion.description) THEN <<KeyOf(assertion.description)>>
    ELSE <<"Assertion failed: ", assertion.id>>

\* message = getGuidanceMessage(type, details, status.resolverMeta || target)
\* and the push of the failure
GuidedFailure(assertion, guided) ==
    IF guided.ex THEN Iteration(TRUE, TRUE, <<>>)
    ELSE Iteration(FALSE, TRUE, <<Failure(assertion.id, SeverityOf(assertion), guided.msg)>>)

\* if (!passed) { ... failures.push({ id, severity, message }) }
Recorded(assertion, passed, details, target, status) ==
    IF Truthy(passed) THEN Iteration(FALSE, TRUE, <<>>)
    ELSE IF ~Truthy(details)
         THEN Iteration(FALSE, TRUE,
                        <<Failure(assertion.id, SeverityOf(assertion), PlainMessage(assertion))>>)
    ELSE IF IsNullish(status) THEN Iteration(TRUE, TRUE, <<>>)
    ELSE GuidedFailure(assertion,
                       getGuidanceMessage(assertion.type, details,
                                          IF Truthy(Get(status, "resolverMeta"))
                                          THEN Get(status, "resolverMeta") ELSE target))

\* The result of the handler, plain or rich, split into passed and details
Normalized(assertion, call, target, status) ==
    IF call.ex THEN Iteration(TRUE, TRUE, <<>>)
    ELSE IF TypeOf(call.val) = "object" /\ call.val.t # "null"
         THEN Recorded(assertion, Get(call.val, "passed"), Get(call.val, "details"), target, status)
    ELSE Recorded(assertion, call.val, Null, target, status)

\* One iteration of the loop over testSpec.assertions
AssertionStep(assertion, target, status) ==
    IF ~TypeInHandlers(assertion.type)
    THEN Iteration(FALSE, FALSE,
                   <<Failure(assertion.id, SeverityOf(assertion),
                             <<"Unknown assertion type: ", assertion.type>>)>>)
    ELSE Normalized(assertion, CallHandler(assertion.type, target, assertion, status),
                    target, status)

\* The loop from assertion k on: failures collected, the indexes of the
\* assertions whose handler was invoked, the indexes of the assertions the
\* loop reached, and whether an iteration raised (which ends the loop).
RECURSIVE AssertionLoop(_, _, _, _, _)
Accumulate(acc, step, k) ==
    [ex |-> step.ex,
     failures |-> acc.failures \o step.push,
     invoked |-> IF step.invoked THEN Append(acc.invoked, k) ELSE acc.invoked,
     reached |-> Append(acc.reached, k)]

Continue(assertions, target, status, k, next) ==
    IF next.ex THEN next ELSE AssertionLoop(assertions, target, status, k + 1, next)

AssertionLoop(assertions, target, status, k, acc) ==
    IF k > Len(assertions) THEN acc
    ELSE Continue(assertions, target, status, k,
                  Accumulate(acc, AssertionStep(assertions[k], target, status), k))

\* failures.map(f => `[${f.severity}] ${f.id}: ${f.message}`).join("\n\n")
RECURSIVE JoinFailures(_, _)
JoinFailures(failures, k) ==
    IF k > Len(failures) THEN <<>>
    ELSE (IF k > 1 THEN <<"\n\n">> ELSE <<>>)
         \o <<"[", KeyOf(failures[k].severity), "] ", failures[k].id, ": ">>
         \o failures[k].message
         \o JoinFailures(failures, k + 1)

\* return { ok, message, failures }, when the loop was not left by an exception
Report(run) ==
    [raised |-> run.ex,
     ok |-> ~run.ex /\ Len(run.failures) = 0,
     message |-> IF run.ex THEN <<>>
                 ELSE IF Len(run.failures) = 0 THEN <<"All assertions passed">>
                 ELSE JoinFailures(run.failures, 1),
     hasFailures |-> ~run.ex,
     failures |-> IF run.ex THEN <<>> ELSE run.failures,
     invoked |-> run.invoked,
     reached |-> run.reached]

\* runAssertions(testSpec, target, status): the report, or raised = TRUE when
\* a handler or the guidance generator raised.  The early report of a spec
\* without assertions has no failures field (hasFailures = FALSE).
runAssertions(assertions, target, status) ==
    IF Len(assertions) = 0
    THEN [raised |-> FALSE, ok |-> TRUE, message |-> <<"No assertions defined">>,
          hasFailures |-> FALSE, failures |-> <<>>, invoked |-> <<>>, reached |-> <<>>]
    ELSE Report(AssertionLoop(assertions, target,
                              IF status = Undefined THEN Obj(<<>>) ELSE status, 1,
                              [ex |-> FALSE, failures |-> <<>>, invoked |-> <<>>, reached |-> <<>>]))

(***************************************************************************)
(* invokeResolverWithObservation: the context and the two ways a trial     *)
(* settles.                                                                *)
(***************************************************************************)
\* obj.k = v on an object that has the property
SetProp(obj, k, v) ==
    [obj EXCEPT !.kv = [j \in 1..Len(obj.kv) |->
                           IF obj.kv[j].key = k THEN Prop(k, v) ELSE obj.kv[j]]]

\* const ctx = { resolver, resolverMeta, output: null, outputs: [], error: null,
\*               threw: false, retryCount: 0 }
NewContext(resolver, resolverMeta) ==
    Obj(<<Prop("resolver", resolver), Prop("resolverMeta", resolverMeta),
          Prop("output", Null), Prop("outputs", Arr(<<>>)), Prop("error", Null),
          Prop("threw", JsFalse), Prop("retryCount", Num(0))>>)

\* ctx.output = result; ctx.outputs.push(result)
TrialReturned(ctx, result) ==
    SetProp(SetProp(ctx, "output", result),
            "outputs", Arr(Append(Elems(Get(ctx, "outputs")), result)))

\* The catch block raises TypeError itself when err is nullish (err.code), when
\* resolverMeta is nullish, when failures is neither nullish nor an array
\* (no find method), or when find reads f.code of a nullish entry.
CatchRaises(err, resolverMeta) ==
    \/ IsNullish(err)
    \/ /\ Truthy(Get(err, "code"))
       /\ \/ IsNullish(resolverMeta)
          \/ LET failures == Get(resolverMeta, "failures")
                 at == FindFailure(failures, Get(err, "code"))
             IN  /\ ~IsNullish(failures)
                 /\ \/ ~IsArray(failures)
                    \/ \E j \in 1..Len(failures.kv) :
                          /\ IsNullish(failures.kv[j].val)
                          /\ (at = 0 \/ j < at)

\* The catch block without the retry bookkeeping
TrialThrewNoRetries(ctx, err, resolverMeta) ==
    SetProp(SetProp(ctx, "threw", JsTrue), "error", err)

\* ctx.threw = true; ctx.error = err; if (err.code) { decl = find(...);
\* if (decl) ctx.retryCount = decl.retries }      (when the block does not raise)
TrialThrew(ctx, err, resolverMeta) ==
    LET caught == SetProp(SetProp(ctx, "threw", JsTrue), "error", err)
        failures == Get(resolverMeta, "failures")
        at == IF Truthy(Get(err, "code")) /\ IsArray(failures)
              THEN FindFailure(failures, Get(err, "code")) ELSE 0
    IN  IF at # 0 /\ Truthy(failures.kv[at].val)
        THEN SetProp(caught, "retryCount", Get(failures.kv[at].val, "retries"))
        ELSE caught

\* testSpec.test_id === 'R-011-determinism' ? 3 : 1
DeterminismRuns == 3

\* The loop with one determinism trial too few
RunsShort(test_id) == IF test_id = "R-011-determinism" THEN DeterminismRuns - 1 ELSE 1

Runs(test_id) == IF test_id = "R-011-determinism" THEN DeterminismRuns ELSE 1

(***************************************************************************)
(* The values the model draws.                                             *)
(***************************************************************************)
\* Thrown values: an error with a declared-style code, one without a code, a
\* string, null and undefined.
CodedError(c) == Obj(<<Prop("message", Str("x")), Prop("code", Str(c))>>)

PlainError == Obj(<<Prop("message", Str("x"))>>)

Thrown == {CodedError("E1"), CodedError("E2"), PlainError, Str("s"), Null, Undefined}

FailureEntry(c, r) == Obj(<<Prop("code", Str(c)), Prop("retries", r)>>)

\* Values of the failures field of a declaration (Undefined: field absent)
WellFormedFailures ==
    {Arr(<<FailureEntry("E1", Num(2))>>),
     Arr(<<FailureEntry("E1", Num(2)), FailureEntry("E2", Num(0))>>),
     Arr(<<FailureEntry("E1", Num(1)), FailureEntry("E1", Num(3))>>)}

FailuresFields ==
    WellFormedFailures \cup
    {Undefined, Null, Arr(<<>>), Str("E1"), Obj(<<>>),
     Arr(<<Null>>),
     Arr(<<FailureEntry("E1", Num(2)), Null>>),
     Arr(<<Obj(<<Prop("code", Num(5)), Prop("retries", Num(1))>>)>>),
     Arr(<<Obj(<<Prop("code", Str("E1"))>>)>>),
     Arr(<<FailureEntry("E1", Str("2"))>>),
     Arr(<<FailureEntry("E1", NaN)>>),
     Arr(<<FailureEntry("E1", Num(2)), Num(7)>>)}

OutputEntry(name) == Obj(<<Prop("name", Str(name)), Prop("type", Str("number"))>>)

\* Values of the outputs field of a declaration
OutputsFields ==
    {Undefined, Arr(<<>>), Arr(<<OutputEntry("a")>>),
     Arr(<<OutputEntry("a"), OutputEntry("b")>>),
     Arr(<<OutputEntry("b"), OutputEntry("a")>>),
     Arr(<<OutputEntry("constructor")>>),
     Arr(<<OutputEntry("1x")>>),
     Arr(<<Obj(<<Prop("type", Str("number"))>>)>>)}

InputEntry(name) ==
    Obj(<<Prop("name", Str(name)), Prop("type", Str("string")), Prop("required", JsTrue)>>)

InputsFields == {Undefined, Arr(<<InputEntry("a")>>), Arr(<<Obj(<<Prop("name", Str("a"))>>)>>)}

\* A resolver declaration; an Undefined field is left out.
Declaration(resolverName, inputs, outputs, failures, exampleAction) ==
    Obj(SelectSeq(<<Prop("resolverName", resolverName), Prop("inputs", inputs),
                    Prop("outputs", outputs), Prop("failures", failures),
                    Prop("exampleAction", exampleAction)>>,
                  LAMBDA p : p.val # Undefined))

\* Values a resolver returns
Returned ==
    {Undefined, Null, NaN, Num(1), Str("s"), Arr(<<>>), Arr(<<Num(1)>>), Fn(<<>>),
     Obj(<<>>),
     Obj(<<Prop("a", Num(1))>>),
     Obj(<<Prop("a", Num(2))>>),
     Obj(<<Prop("a", Undefined)>>),
     Obj(<<Prop("a", Num(1)), Prop("b", Num(2))>>),
     Obj(<<Prop("b", Num(2)), Prop("a", Num(1))>>),
     Obj(<<Prop("error", Str("INVALID_INPUT"))>>),
     Obj(<<Prop("output", Null)>>),
     Obj(<<Prop("output", Str("s"))>>),
     Obj(<<Prop("output", Arr(<<>>))>>),
     Obj(<<Prop("output", Obj(<<Prop("a", Num(1))>>))>>),
     Obj(<<Prop("output", Obj(<<Prop("a", Num(1)), Prop("b", Num(2))>>))>>)}

\* Returned values that tell the serializations apart or not
Compared ==
    {Undefined, Null, NaN, Fn(<<>>), Obj(<<>>),
     Obj(<<Prop("a", Num(1))>>),
     Obj(<<Prop("a", Num(2))>>),
     Obj(<<Prop("a", Undefined)>>),
     Obj(<<Prop("a", Num(1)), Prop("b", Num(2))>>),
     Obj(<<Prop("b", Num(2)), Prop("a", Num(1))>>)}

Declarations ==
    {Declaration(Str("bank_lookup"), i, o, f, Undefined) :
        i \in InputsFields, o \in OutputsFields, f \in FailuresFields}

\* Declarations of the runtime suites: one field varies at a time
RuntimeDeclarations ==
    {Declaration(Str("bank_lookup"), Undefined, Arr(<<OutputEntry("a")>>), f, Str("action")) :
        f \in FailuresFields}
    \cup {Declaration(Str("bank_lookup"), Undefined, o, Arr(<<FailureEntry("E1", Num(2))>>), Undefined) :
        o \in OutputsFields}

Declaration0 ==
    Declaration(Str("bank_lookup"), Undefined, Arr(<<OutputEntry("a")>>),
                Arr(<<FailureEntry("E1", Num(2))>>), Str("action"))

\* The resolver: a function that carries its declaration
ResolverOf(resolverMeta) == Fn(<<Prop("resolverDeclaration", resolverMeta)>>)

\* const resolverMeta = resolver.resolverDeclaration || resolver
MetaOf(resolver) ==
    IF Truthy(Get(resolver, "resolverDeclaration")) THEN Get(resolver, "resolverDeclaration")
    ELSE resolver

Marker == Str("__USE_RESOLVER_EXAMPLE_ACTION__")

\* Fixtures of the runtime suites
Fixtures == {Obj(<<Prop("invoke", Marker)>>), Obj(<<Prop("invoke", Obj(<<>>))>>), Obj(<<>>)}

Assertion(id, type, severity, description, field, expected) ==
    [id |-> id, type |-> type, severity |-> severity, description |-> description,
     field |-> field, expected |-> expected]

FieldAssertions ==
    {Assertion("a1", "t", Undefined, Undefined, "outputs", Undefined),
     Assertion("a1", "t", Undefined, Undefined, "resolverName", Str("bank_lookup"))}

ValidatorArgs ==
    {[target |-> t, assertion |-> a, status |-> Undefined] :
        t \in Declarations, a \in FieldAssertions}

\* What one invocation of the resolver does: it returns (or resolves to) a
\* value, or it throws (or rejects with) a value.
Returns(v) == [kind |-> "return", val |-> v]

Throws(v) == [kind |-> "throw", val |-> v]

\* The arguments of invokeResolverWithObservation, with the range of the
\* resolver.  A value that is not a function cannot be called: TypeError.
NotCallable == Obj(<<Prop("message", Str("resolver is not a function"))>>)

HarnessCall(resolver, test_id, fixture, range) ==
    [resolver |-> resolver, resolverMeta |-> MetaOf(resolver), test_id |-> test_id,
     fixture |-> fixture,
     range |-> IF TypeOf(resolver) = "function" THEN range ELSE {Throws(NotCallable)}]

AnyOutcome == {Returns(v) : v \in Returned} \cup {Throws(e) : e \in Thrown}

ComparedOutcome == {Returns(v) : v \in Compared} \cup {Throws(e) : e \in Thrown}

HarnessCalls ==
    {HarnessCall(ResolverOf(m), "R-006-runtime", f, AnyOutcome) :
        m \in RuntimeDeclarations, f \in Fixtures}
    \cup {HarnessCall(ResolverOf(Declaration0), "R-011-determinism", f, ComparedOutcome) :
        f \in Fixtures}
    \cup {HarnessCall(Declaration0, t, Obj(<<>>), AnyOutcome) :
        t \in {"R-006-runtime", "R-011-determinism"}}

(***************************************************************************)
(* State.                                                                  *)
(***************************************************************************)
VARIABLES
    op,         \* the function applied to args: "none" before the call
    args,       \* the arguments of the call
    out,        \* what the call returned or raised
    hpc,        \* invokeResolverWithObservation: "off", "called", "awaiting",
                \* "returned" (a context), "raised" (an exception to the caller)
    hargs,      \* its arguments
    input,      \* the input it built for the resolver
    ctx,        \* its context
    i,          \* its loop counter
    started,    \* the number of invocations of the resolver so far
    settled,    \* how the invocations settled, in order
    epc,        \* runAllTests: "off", "loop" (at the head of the loop over the
                \* suites), "harness" (awaiting the harness), "done" (returned),
                \* "aborted" (an exception left runAllTests)
    eargs,      \* its arguments and the files of the suites
    si,         \* the number of suites the loop has finished
    failed,     \* its counter
    verdicts    \* the verdict it logged for each suite, in order

vars == <<op, args, out, hpc, hargs, input, ctx, i, started, settled,
          epc, eargs, si, failed, verdicts>>

evars == <<epc, eargs, si, failed, verdicts>>

ExecutorOff ==
    /\ epc = "off"
    /\ eargs = [suites |-> <<>>, resolver |-> Undefined, range |-> {}]
    /\ si = 0
    /\ failed = 0
    /\ verdicts = <<>>

hvars == <<hpc, hargs, input, ctx, i, started, settled>>

NoCall == [resolver |-> Undefined, resolverMeta |-> Undefined, test_id |-> "", fixture |-> Undefined,
           range |-> {}]

HarnessOff ==
    /\ hpc = "off"
    /\ hargs = NoCall
    /\ input = Undefined
    /\ ctx = Undefined
    /\ i = 0
    /\ started = 0
    /\ settled = <<>>

(***************************************************************************)
(* The validators, each applied through its registry entry.                *)
(***************************************************************************)
InitValidators ==
    /\ op = "none"
    /\ args \in ValidatorArgs
    /\ out = Ret(Undefined)
    /\ HarnessOff
    /\ ExecutorOff

Validate(type) ==
    /\ op = "none"
    /\ hpc = "off"
    /\ epc = "off"
    /\ op' = type
    /\ out' = CallHandler(type, args.target, args.assertion, args.status)
    /\ UNCHANGED <<args, hvars, evars>>

NextValidators == \E type \in assertionHandlers : Validate(type)

SpecValidators == InitValidators /\ [][NextValidators]_vars

(***************************************************************************)
(* invokeResolverWithObservation, one action per stretch between awaits,   *)
(* followed by a validator applied to the context it returned.             *)
(***************************************************************************)
\* From the call to the first await: the context, the input, the first
\* invocation of the resolver; or the missing-example error.
Invoke ==
    /\ hpc = "called"
    /\ LET fixture == hargs.fixture
           invoke == IF IsNullish(fixture) THEN Undefined ELSE Get(fixture, "invoke")
           exampleAction == IF IsNullish(hargs.resolverMeta) THEN Undefined
                            ELSE Get(hargs.resolverMeta, "exampleAction")
       IN  /\ ctx' = NewContext(hargs.resolver, hargs.resolverMeta)
           /\ IF StrictEquals(invoke, Marker)
              THEN IF ~Truthy(exampleAction)
                   THEN /\ hpc' = "raised"
                        /\ UNCHANGED <<input, started>>
                   ELSE /\ input' = exampleAction
                        /\ hpc' = "awaiting"
                        /\ started' = started + 1
              ELSE /\ input' = (IF Truthy(invoke) THEN invoke ELSE Obj(<<>>))
                   /\ hpc' = "awaiting"
                   /\ started' = started + 1
    /\ i' = 0
    /\ UNCHANGED <<op, args, out, hargs, settled, evars>>

\* The awaited invocation settles: the result is recorded and the next trial
\* is started, or the loop ends and the context is returned; a thrown value
\* is caught, which ends the loop, unless the catch block raises itself.
Settle(outcome) ==
    /\ hpc = "awaiting"
    /\ outcome \in hargs.range
    /\ settled' = Append(settled, outcome)
    /\ IF outcome.kind = "return"
       THEN /\ ctx' = TrialReturned(ctx, outcome.val)
            /\ i' = i + 1
            /\ IF i + 1 < Runs(hargs.test_id)
               THEN hpc' = "awaiting" /\ started' = started + 1
               ELSE hpc' = "returned" /\ UNCHANGED started
       ELSE /\ UNCHANGED <<i, started>>
            /\ IF CatchRaises(outcome.val, hargs.resolverMeta)
               THEN /\ hpc' = "raised"
                    /\ ctx' = SetProp(SetProp(ctx, "threw", JsTrue), "error", outcome.val)
               ELSE /\ hpc' = "returned"
                    /\ ctx' = TrialThrew(ctx, outcome.val, hargs.resolverMeta)
    /\ UNCHANGED <<op, args, out, hargs, input, evars>>

\* A registered handler applied to the returned context
ValidateContext(type) ==
    /\ hpc = "returned"
    /\ epc = "off"
    /\ op = "none"
    /\ op' = type
    /\ out' = CallHandler(type, ctx, args.assertion, args.status)
    /\ UNCHANGED <<args, hvars, evars>>

InitRuntime ==
    /\ op = "none"
    /\ out = Ret(Undefined)
    /\ hpc = "called"
    /\ hargs \in HarnessCalls
    /\ args = [target |-> Undefined,
               assertion |-> Assertion("a1", "t", Undefined, Undefined, "outputs", Undefined),
               status |-> Obj(<<Prop("resolverMeta", hargs.resolverMeta)>>)]
    /\ input = Undefined
    /\ ctx = Undefined
    /\ i = 0
    /\ started = 0
    /\ settled = <<>>
    /\ ExecutorOff

NextRuntime ==
    \/ Invoke
    \/ \E outcome \in AnyOutcome \cup {Throws(NotCallable)} : Settle(outcome)
    \/ \E type \in assertionHandlers : ValidateContext(type)

SpecRuntime == InitRuntime /\ [][NextRuntime]_vars

(***************************************************************************)
(* runAssertions applied to a list of assertions and a target.             *)
(***************************************************************************)
\* The longest list of assertions of a test spec
MaxAssertions == 2

\* Assertion types: the registered ones, one that is nowhere ("bogus") and
\* the names assertionHandlers inherits.
AssertionTypes == assertionHandlers \cup {"bogus"} \cup InheritedKeys

\* The assertions of a test spec, before they get their ids
AssertionTemplates ==
    {Assertion("", type, Undefined, Undefined, "outputs", Undefined) : type \in AssertionTypes}
    \cup {Assertion("", "bogus", Str("warning"), Str("d"), "outputs", Undefined),
          Assertion("", "resolver_failures_valid", Str("warning"), Str("d"), "outputs", Undefined),
          Assertion("", "output_fields_match_contract", Undefined, Str("d"), "outputs", Undefined)}

\* Assertion ids are unique within a spec
WithIds(templates) == [k \in 1..Len(templates) |-> [templates[k] EXCEPT !.id = ToString(k)]]

AssertionLists == {WithIds(l) : l \in UNION {[1..n -> AssertionTemplates] : n \in 1..MaxAssertions}}

\* Targets and status bags: declarations (static mode), contexts with their
\* status (runtime mode), and values of another shape
RunnerTargets ==
    {[target |-> d, status |-> Undefined] :
        d \in {Declaration0,
               Declaration(Str("telegram_send"), Undefined, Arr(<<OutputEntry("a"), Null>>),
                           Arr(<<>>), Undefined),
               Obj(<<Prop("resolverDeclaration", Declaration0)>>),
               Null, Str("s")}}
    \cup {[target |-> c, status |-> Obj(<<Prop("resolverMeta", Declaration0)>>)] :
            c \in {TrialReturned(NewContext(ResolverOf(Declaration0), Declaration0), v) :
                       v \in {Obj(<<Prop("a", Num(1))>>), Obj(<<>>), Null}}
                  \cup {TrialThrew(NewContext(ResolverOf(Declaration0), Declaration0), e, Declaration0) :
                       e \in {CodedError("E1"), PlainError}}}

InitRunner ==
    /\ op = "none"
    /\ \E l \in AssertionLists, t \in RunnerTargets :
          args = [assertions |-> l, target |-> t.target, status |-> t.status]
    /\ out = Ret(Undefined)
    /\ HarnessOff
    /\ ExecutorOff

RunAssertionsCall ==
    /\ op = "none"
    /\ hpc = "off"
    /\ epc = "off"
    /\ op' = "runAssertions"
    /\ out' = runAssertions(args.assertions, args.target, args.status)
    /\ UNCHANGED <<args, hvars, evars>>

NextRunner == RunAssertionsCall

SpecRunner == InitRunner /\ [][NextRunner]_vars

(***************************************************************************)
(* runAllTests.  A suite is the files the executor reads for it: whether   *)
(* test.json exists and parses, the test spec it holds, the local fixture  *)
(* override ("none", "garbage" when it does not parse, "json"), whether    *)
(* the contract file exists, whether require() of it succeeds, and the     *)
(* module it exports.                                                      *)
(***************************************************************************)
TestSpec(test_id, category, assertions, fixtures) ==
    [test_id |-> test_id, category |-> category, assertions |-> assertions, fixtures |-> fixtures]

Suite(specExists, specParses, testSpec, contractExists, contractLoads, contract) ==
    [specExists |-> specExists, specParses |-> specParses, testSpec |-> testSpec,
     override |-> "none", overrideFixture |-> Undefined,
     contractExists |-> contractExists, contractLoads |-> contractLoads, contract |-> contract]

\* fixtures: { inputs: [fixture] }
FixturesOf(fixture) == Obj(<<Prop("inputs", Arr(<<fixture>>))>>)

ContractFixture == Obj(<<Prop("resolver_contract", Str("contract.js"))>>)

Check(id, type) == Assertion(id, type, Undefined, Undefined, "outputs", Undefined)

StaticSpec(assertions) ==
    TestSpec("R-005-resolver-metadata", Undefined, assertions, FixturesOf(ContractFixture))

RuntimeSpec(test_id, assertions, fixture) ==
    TestSpec(test_id, Str("resolver-runtime"), assertions, FixturesOf(fixture))

NoSpec == TestSpec("", Undefined, <<>>, Undefined)

\* The suites of the model, one or more for each way a suite can end
SuiteKinds ==
    {\* test.json missing; present but not JSON; JSON without fixtures; with an
     \* empty fixtures.inputs
     Suite(FALSE, FALSE, NoSpec, FALSE, FALSE, Undefined),
     Suite(TRUE, FALSE, NoSpec, FALSE, FALSE, Undefined),
     Suite(TRUE, TRUE, TestSpec("R-005-resolver-metadata", Undefined,
                                <<Check("1", "resolver_failures_valid")>>, Undefined),
           FALSE, FALSE, Undefined),
     Suite(TRUE, TRUE, TestSpec("R-005-resolver-metadata", Undefined,
                                <<Check("1", "resolver_failures_valid")>>,
                                Obj(<<Prop("inputs", Arr(<<>>))>>)),
           FALSE, FALSE, Undefined),
     \* contract file missing; contract module throwing on load
     Suite(TRUE, TRUE, StaticSpec(<<Check("1", "resolver_failures_valid")>>), FALSE, FALSE, Undefined),
     Suite(TRUE, TRUE, StaticSpec(<<Check("1", "resolver_failures_valid")>>), TRUE, FALSE, Undefined),
     \* static contract: passes; fails validation; wrapped declaration; a
     \* validator that raises on a declaration; no assertions
     Suite(TRUE, TRUE, StaticSpec(<<Check("1", "resolver_failures_valid"),
                                    Check("2", "resolver_outputs_valid")>>),
           TRUE, TRUE, Declaration0),
     Suite(TRUE, TRUE, StaticSpec(<<Check("1", "resolver_inputs_valid"),
                                    Check("2", "resolver_outputs_valid")>>),
           TRUE, TRUE, Declaration0),
     Suite(TRUE, TRUE, StaticSpec(<<Check("1", "resolver_failures_valid"),
                                    Check("2", "resolver_outputs_valid")>>),
           TRUE, TRUE, Obj(<<Prop("resolverDeclaration", Declaration0)>>)),
     Suite(TRUE, TRUE, StaticSpec(<<Check("1", "retry_count_within_declared_limit")>>),
           TRUE, TRUE, Declaration0),
     Suite(TRUE, TRUE, StaticSpec(<<>>), TRUE, TRUE, Declaration0),
     \* runtime: the example action as input; a literal input; the
     \* determinism test; a type that raises in the runner
     Suite(TRUE, TRUE, RuntimeSpec("R-007-output-contract",
                                   <<Check("1", "output_is_object"),
                                     Check("2", "output_fields_match_contract"),
                                     Check("3", "resolver_failure_declared")>>,
                                   Obj(<<Prop("invoke", Marker)>>)),
           FALSE, FALSE, Undefined),
     Suite(TRUE, TRUE, RuntimeSpec("R-009-retry",
                                   <<Check("1", "retry_count_within_declared_limit"),
                                     Check("2", "resolver_failure_declared")>>,
                                   Obj(<<Prop("invoke", Obj(<<>>))>>)),
           FALSE, FALSE, Undefined),
     Suite(TRUE, TRUE, RuntimeSpec("R-011-determinism",
                                   <<Check("1", "deterministic_output")>>,
                                   Obj(<<Prop("invoke", Obj(<<>>))>>)),
           FALSE, FALSE, Undefined),
     Suite(TRUE, TRUE, RuntimeSpec("R-006-runtime", <<Check("1", "__proto__")>>, Obj(<<>>)),
           FALSE, FALSE, Undefined),
     \* neither a contract fixture nor the runtime category
     Suite(TRUE, TRUE, TestSpec("R-001-allowlist", Str("static"),
                                <<Check("1", "resolver_failures_valid")>>,
                                FixturesOf(Obj(<<Prop("invoke", Obj(<<>>))>>))),
           FALSE, FALSE, Undefined)}
    \cup
    \* a local override of the fixture: garbage, or a contract fixture
    {[Suite(TRUE, TRUE, RuntimeSpec("R-006-runtime", <<Check("1", "resolver_is_callable")>>, Obj(<<>>)),
            TRUE, TRUE, Declaration0)
         EXCEPT !.override = o, !.overrideFixture = ContractFixture] : o \in {"garbage", "json"}}

\* The most suites of a run
MaxSuites == 2

SuiteLists == UNION {[1..n -> SuiteKinds] : n \in 1..MaxSuites}

\* What the resolver of a run may do when it is invoked
SuiteOutcomes ==
    {Returns(Obj(<<Prop("a", Num(1))>>)), Returns(Obj(<<>>)),
     Throws(CodedError("E1")), Throws(PlainError), Throws(Null)}

InitSuites ==
    /\ op = "none"
    /\ args = [target |-> Undefined, assertion |-> Check("", ""), status |-> Undefined]
    /\ out = Ret(Undefined)
    /\ HarnessOff
    /\ epc = "called"
    /\ \E l \in SuiteLists,
          r \in {ResolverOf(Declaration0),
                 ResolverOf(Declaration(Str("telegram_send"), Undefined, Arr(<<OutputEntry("a")>>),
                                        Arr(<<>>), Undefined))} :
          eargs = [suites |-> l, resolver |-> r, range |-> SuiteOutcomes]
    /\ si = 0
    /\ failed = 0
    /\ verdicts = <<>>

\* let failed = 0; resolverMeta = resolver.resolverDeclaration || resolver;
\* resolverName.includes('bank'): up to the loop
RunAllTests ==
    /\ epc = "called"
    /\ LET name == IF IsNullish(eargs.resolver) THEN Undefined
                   ELSE Get(MetaOf(eargs.resolver), "resolverName")
       IN  epc' = IF IsNullish(eargs.resolver) \/ (Truthy(name) /\ name.t \notin {"string", "array"})
                  THEN "aborted" ELSE "loop"
    /\ failed' = 0
    /\ UNCHANGED <<op, args, out, hvars, eargs, si, verdicts>>

\* failed++ (or not), the verdict is logged, on to the next suite
Verdict(v) ==
    /\ verdicts' = Append(verdicts, v)
    /\ failed' = IF v = "pass" THEN failed ELSE failed + 1
    /\ si' = si + 1
    /\ epc' = "loop"

Abort ==
    /\ epc' = "aborted"
    /\ UNCHANGED <<si, failed, verdicts>>

\* One iteration of the loop over the suites, up to the verdict of the suite,
\* to the call of the harness, or to the exception that nothing catches.
SuiteStep ==
    /\ epc = "loop"
    /\ si < Len(eargs.suites)
    /\ LET suite == eargs.suites[si + 1]
           testSpec == suite.testSpec
           inputs == Get(testSpec.fixtures, "inputs")
           first == Get(inputs, "0")
           fixture == IF suite.override = "none" THEN first ELSE suite.overrideFixture
           result == runAssertions(testSpec.assertions, suite.contract, Undefined)
       IN  IF ~suite.specExists
           THEN Verdict("fail") /\ UNCHANGED hvars
           ELSE IF \/ ~suite.specParses
                   \/ IsNullish(testSpec.fixtures)
                   \/ IsNullish(inputs)
                   \/ suite.override = "garbage"
                   \/ IsNullish(fixture)
                THEN Abort /\ UNCHANGED hvars
           ELSE IF Truthy(Get(fixture, "resolver_contract"))
                THEN /\ UNCHANGED hvars
                     /\ IF ~suite.contractExists \/ ~suite.contractLoads THEN Verdict("fail")
                        ELSE IF result.raised THEN Abort
                        ELSE IF ~result.ok THEN Verdict("fail")
                        ELSE Verdict("pass")
           ELSE IF StrictEquals(testSpec.category, Str("resolver-runtime"))
                THEN /\ epc' = "harness"
                     /\ hpc' = "called"
                     /\ hargs' = HarnessCall(eargs.resolver, testSpec.test_id, fixture, eargs.range)
                     /\ input' = Undefined
                     /\ ctx' = Undefined
                     /\ i' = 0
                     /\ started' = 0
                     /\ settled' = <<>>
                     /\ UNCHANGED <<si, failed, verdicts>>
           ELSE Verdict("fail") /\ UNCHANGED hvars
    /\ UNCHANGED <<op, args, out, eargs>>

\* The harness is back: its exception is caught, or runAssertions runs on the
\* context inside the same try block.
SuiteResume ==
    /\ epc = "harness"
    /\ hpc \in {"returned", "raised"}
    /\ LET testSpec == eargs.suites[si + 1].testSpec
           result == runAssertions(testSpec.assertions, ctx,
                                   Obj(<<Prop("resolverMeta", MetaOf(eargs.resolver))>>))
       IN  IF hpc = "raised" THEN Verdict("fail")
           ELSE IF result.raised THEN Verdict("fail")
           ELSE IF ~result.ok THEN Verdict("fail")
           ELSE Verdict("pass")
    /\ hpc' = "off"
    /\ UNCHANGED <<op, args, out, hargs, input, ctx, i, started, settled, eargs>>

\* return { failed }
Return ==
    /\ epc = "loop"
    /\ si = Len(eargs.suites)
    /\ epc' = "done"
    /\ UNCHANGED <<op, args, out, hvars, eargs, si, failed, verdicts>>

NextSuites ==
    \/ RunAllTests
    \/ SuiteStep
    \/ Invoke
    \/ \E outcome \in SuiteOutcomes : Settle(outcome)
    \/ SuiteResume
    \/ Return

SpecSuites == InitSuites /\ [][NextSuites]_vars

(***************************************************************************)
(* Properties of the observation harness and of the runtime validators,    *)
(* under SpecRuntime.                                                      *)
(***************************************************************************)
Determinism == hargs.test_id = "R-011-determinism"

NoneThrew == \A k \in 1..Len(settled) : settled[k].kind = "return"

LastThrew == settled # <<>> /\ settled[Len(settled)].kind = "throw"

ReturnedValues ==
    LET returns == SelectSeq(settled, LAMBDA o : o.kind = "return")
    IN  [k \in 1..Len(returns) |-> returns[k].val]

\* C4: trial scheduling.  No trial is started before the previous one has
\* settled; only the last settled invocation can be one that threw, and no
\* trial is pending after it; when the harness returns, the resolver was
\* invoked 3 times for the determinism test if nothing threw and once for any
\* other test, outputs holds the results of the successful trials in
\* invocation order and output is the last of them (null if there is none).
C4_TrialScheduling ==
    /\ started <= Len(settled) + 1
    /\ (hpc = "awaiting") = (started = Len(settled) + 1)
    /\ \A k \in 1..Len(settled) : settled[k].kind = "throw" => k = Len(settled)
    /\ LastThrew => hpc \in {"returned", "raised"}
    /\ hpc = "returned" =>
          /\ started = Len(settled)
          /\ (Determinism /\ NoneThrew) => started = 3
          /\ ~Determinism => started = 1
          /\ Elems(Get(ctx, "outputs")) = ReturnedValues
          /\ Get(ctx, "output") = IF ReturnedValues = <<>> THEN Null
                                  ELSE ReturnedValues[Len(ReturnedValues)]

\* The determinism test returned after three invocations, the last of which threw
C4_Witness ==
    /\ hpc = "returned"
    /\ Determinism
    /\ started = 3
    /\ LastThrew
    /\ Len(Get(ctx, "outputs").kv) = 2

\* C5: the harness raises to its caller only for the missing-example
\* configuration error (the marker fixture with no exampleAction declared),
\* which happens before any invocation.
C5_RaisesOnlyWithoutExample ==
    hpc = "raised" =>
        /\ started = 0
        /\ Get(hargs.fixture, "invoke") = Marker
        /\ ~HasOwn(hargs.resolverMeta, "exampleAction")

\* The entries of the declared failures, as a declaration states them
DeclaredEntries(resolverMeta) ==
    LET failures == Get(resolverMeta, "failures")
    IN  IF IsArray(failures) THEN Elems(failures) ELSE <<>>

CarriesCode(err) == ~IsNullish(err) /\ Get(err, "code").t = "string"

IsDeclaredCode(resolverMeta, err) ==
    /\ CarriesCode(err)
    /\ \E k \in 1..Len(DeclaredEntries(resolverMeta)) :
          LET f == DeclaredEntries(resolverMeta)[k]
          IN  f.t = "object" /\ Get(f, "code") = Get(err, "code")

FirstDeclared(resolverMeta, err) ==
    LET entries == DeclaredEntries(resolverMeta)
        k == CHOOSE k \in 1..Len(entries) :
                /\ entries[k].t = "object" /\ Get(entries[k], "code") = Get(err, "code")
                /\ \A l \in 1..(k - 1) :
                      ~(entries[l].t = "object" /\ Get(entries[l], "code") = Get(err, "code"))
    IN  entries[k]

PlainFailures == Get(hargs.resolverMeta, "failures") \in WellFormedFailures \cup {Undefined, Arr(<<>>)}

\* C7: resolver_failure_declared passes on a context iff no error occurred or
\* the thrown error's code is among the declared failure codes; an error that
\* carries no code is not declared, so the check fails on it.
C7_FailureDeclaredIffDeclared ==
    (op = "resolver_failure_declared" /\ PlainFailures) =>
        (out = Ret(JsTrue)) = (~LastThrew \/ IsDeclaredCode(hargs.resolverMeta, Get(ctx, "error")))

Outputs == Elems(Get(ctx, "outputs"))

\* C8 as stated: deterministic_output is true iff there are fewer than 2
\* outputs or every output is structurally (deeply, key order included) equal
\* to the first.
C8_DeterministicIffStructurallyEqual ==
    op = "deterministic_output" =>
        out = Ret(JsBool(Len(Outputs) < 2 \/ \A k \in 2..Len(Outputs) : Outputs[k] = Outputs[1]))

\* C8 as amended: deterministic_output is true iff there are fewer than 2
\* outputs or every output has the JSON serialization of the first; and when
\* the three determinism trials all return, outputs records the three results
\* in order, equal or not.
C8_DeterministicIffSerializedEqual ==
    /\ op = "deterministic_output" =>
          out = Ret(JsBool(Len(Outputs) < 2
                           \/ \A k \in 2..Len(Outputs) : Serialize(Outputs[k]) = Serialize(Outputs[1])))
    /\ (hpc = "returned" /\ Determinism /\ NoneThrew) =>
          /\ Len(Outputs) = 3
          /\ \A k \in 1..3 : Outputs[k] = settled[k].val

\* The trials returned {a:1}, {a:1}, {a:2}: three outputs and a failing check
C8_Witness ==
    /\ op = "deterministic_output"
    /\ Outputs = <<Obj(<<Prop("a", Num(1))>>), Obj(<<Prop("a", Num(1))>>), Obj(<<Prop("a", Num(2))>>)>>
    /\ out = Ret(JsFalse)

\* The shape rule of output_is_object, as the specification words it
LegalObject(v) == v.t = "object"

LegalOutput(v) ==
    /\ LegalObject(v)
    /\ HasOwn(v, "output") => LegalObject(Get(v, "output"))

DeclaredNames ==
    LET outputs == Get(hargs.resolverMeta, "outputs")
    IN  IF IsArray(outputs) THEN [k \in 1..Len(outputs.kv) |-> Get(outputs.kv[k].val, "name")] ELSE <<>>

\* C9: output_fields_match_contract rejects exactly the values that
\* output_is_object rejects, with reason no_output or invalid_output_shape;
\* on a legal value it is true when every declared name is a key of the
\* output object, and otherwise a missing_fields failure that lists the
\* absent declared names in declared order.
C9_FieldsMatchSameShapeRule ==
    (op = "output_fields_match_contract" /\ ~out.ex) =>
        LET v == Get(ctx, "output")
            O == IF HasOwn(v, "output") THEN Get(v, "output") ELSE v
            absent == SelectSeq(DeclaredNames, LAMBDA name : ~HasOwn(O, KeyOf(name)))
            details == Get(out.val, "details")
        IN  IF ~LegalOutput(v)
            THEN /\ Get(out.val, "passed") = JsFalse
                 /\ Get(details, "reason") \in {Str("no_output"), Str("invalid_output_shape")}
            ELSE IF absent = <<>> THEN out.val = JsTrue
            ELSE /\ Get(out.val, "passed") = JsFalse
                 /\ Get(details, "reason") = Str("missing_fields")
                 /\ Elems(Get(details, "missingFields")) = absent

\* The failures field is absent or a sequence of entries with a string code
\* and a numeric retries that is not NaN
TypedFailures ==
    LET failures == Get(hargs.resolverMeta, "failures")
    IN  \/ failures = Undefined
        \/ /\ IsArray(failures)
           /\ \A k \in 1..Len(failures.kv) :
                 LET f == failures.kv[k].val
                 IN  /\ f.t = "object"
                     /\ Get(f, "code").t = "string"
                     /\ Get(f, "retries").t = "number"
                     /\ ~NumberIsNaN(Get(f, "retries"))

IndividuallyFails(assertion) ==
    \/ assertion.type \notin assertionHandlers
    \/ ~runAssertions(<<assertion>>, args.target, args.status).ok

\* C2: runAssertions never short-circuits.  For every non-empty list and
\* every target and status it returns a report; every assertion was evaluated,
\* in list order; failures has one entry per assertion that fails by itself
\* (those of unknown type included), in assertion order; ok is true iff
\* failures is empty.
C2_NeverShortCircuits ==
    op = "runAssertions" =>
        LET failing == SelectSeq(args.assertions, IndividuallyFails)
        IN  /\ ~out.raised
            /\ out.reached = [k \in 1..Len(args.assertions) |-> k]
            /\ [k \in 1..Len(out.failures) |-> out.failures[k].id]
                  = [k \in 1..Len(failing) |-> failing[k].id]
            /\ out.ok = (out.failures = <<>>)

\* C3: fail-closed dispatch.  An assertion whose type is not one of the 13
\* keys of assertionHandlers gets no handler invoked, raises nothing, leaves
\* a failure "Unknown assertion type: <type>" with its severity (fatal by
\* default), and the loop goes on to the next assertion.
C3_UnknownTypeFailsClosed ==
    op = "runAssertions" =>
        \A k \in 1..Len(out.reached) :
            LET assertion == args.assertions[k]
                severity == IF assertion.severity = Undefined THEN Str("fatal")
                            ELSE assertion.severity
            IN  assertion.type \notin assertionHandlers =>
                    /\ \A j \in 1..Len(out.invoked) : out.invoked[j] # k
                    /\ ~(out.raised /\ k = Len(out.reached))
                    /\ k < Len(args.assertions) => k + 1 <= Len(out.reached)
                    /\ ~out.raised =>
                          \E j \in 1..Len(out.failures) :
                              out.failures[j] =
                                  Failure(assertion.id, severity,
                                          <<"Unknown assertion type: ", assertion.type>>)

(***************************************************************************)
(* Properties of runAllTests, under SpecSuites.                            *)
(***************************************************************************)
\* C1: suite isolation.  Whatever happens in a suite, the executor is never
\* left by an exception, so the remaining suites are processed; when it
\* returns, every suite of the list has exactly one verdict and failed is the
\* number of suites that did not pass.
C1_SuiteIsolation ==
    /\ epc # "aborted"
    /\ Len(verdicts) = si
    /\ epc = "done" =>
          /\ Len(verdicts) = Len(eargs.suites)
          /\ failed = Cardinality({k \in 1..Len(verdicts) : verdicts[k] # "pass"})

\* The suites whose contract file was loaded and validated
Validated(k) ==
    LET suite == eargs.suites[k]
    IN  /\ k <= Len(verdicts)
        /\ suite.override = "none"
        /\ suite.contractExists
        /\ suite.contractLoads
        /\ suite.testSpec.fixtures = FixturesOf(ContractFixture)

\* Suite k is suite j with the declaration of its contract module wrapped in
\* a resolverDeclaration field
Wraps(k, j) ==
    /\ eargs.suites[j].contract.t = "object"
    /\ eargs.suites[k] =
          [eargs.suites[j] EXCEPT
              !.contract = Obj(<<Prop("resolverDeclaration", eargs.suites[j].contract)>>)]

\* C11: in static contract mode a module that exposes {resolverDeclaration: D}
\* gets the verdict of a module that exposes D directly, for the same test
\* spec.
C11_WrappedContractSameVerdict ==
    \A j, k \in 1..Len(verdicts) :
        (Validated(j) /\ Validated(k) /\ Wraps(k, j)) => verdicts[k] = verdicts[j]

(***************************************************************************)
(* Properties of the metadata validators, under SpecValidators.            *)
(***************************************************************************)
\* C10: resolver_failures_valid passes iff failures is a non-empty sequence
\* whose every element has a string code and a numeric retries; an absent or
\* empty failures field fails.
C10_FailuresValidIffNonEmpty ==
    op = "resolver_failures_valid" =>
        LET failures == Get(args.target, "failures")
        IN  (out = Ret(JsTrue)) =
               /\ IsArray(failures)
               /\ Len(failures.kv) > 0
               /\ \A k \in 1..Len(failures.kv) :
                     /\ failures.kv[k].val.t = "object"
                     /\ Get(failures.kv[k].val, "code").t = "string"
                     /\ Get(failures.kv[k].val, "retries").t = "number"

====
